---- MODULE Spec2Model ----
(***************************************************************************)
(* Flood-risk dashboard (flood_risk_app.py).                               *)
(*                                                                         *)
(* The program is a script that is re-run from top to bottom on every user *)
(* interaction.  Its state between runs is the state of its three input    *)
(* widgets (data source radio, file uploader, risk multiselect); the page  *)
(* it renders is a function of those.  Every action below is one user      *)
(* interaction followed by the whole run of main().                        *)
(*                                                                         *)
(* Numbers are fixed-point: the integer v stands for v / Scale, so six     *)
(* decimals are exact (the precision generate_sample_data rounds to).      *)
(***************************************************************************)
EXTENDS Integers, Sequences, FiniteSets

VARIABLES
    data_option,     \* the radio: "Use Sample Data" or "Upload CSV File"
    uploaded_file,   \* the file uploader's content
    risk_filter,     \* the multiselect's selection (a set of risk levels)
    page,            \* what the last run of main() rendered
    elevation_arg,   \* calculate_flood_risk called on its own: argument
    rainfall_arg,    \*   "        argument
    risk_ret         \*   "        returned value ("none" before the call)

vars == <<data_option, uploaded_file, risk_filter, page,
          elevation_arg, rainfall_arg, risk_ret>>

-----------------------------------------------------------------------------
(* Bounds of the model *)

\* the longest uploaded table that is enumerated
MaxRows == 3

Scale == 10^6

-----------------------------------------------------------------------------
(* Values.  A cell of a table is a float, NaN (an empty CSV field), or a   *)
(* Python str (a field of a column that did not parse as numeric).         *)

Num(v)  == [k |-> "num", n |-> v, s |-> ""]
NaN     == [k |-> "nan", n |-> 0, s |-> ""]
Text(t) == [k |-> "str", n |-> 0, s |-> t]

\* a decimal d.ffffff given as whole part and millionths
Dec(whole, frac) == Num(whole * Scale + frac)

RiskLevels == {"High", "Medium", "Low"}

\* Python: float < str raises TypeError
Raises(x) == x.k = "str"
\* Python float comparison: any comparison with NaN is False
Lt(x, bound) == x.k = "num" /\ x.n < bound * Scale
Gt(x, bound) == x.k = "num" /\ x.n > bound * Scale

\* the elif/else part of calculate_flood_risk
ElifMedium(elevation, rainfall) ==
    IF Raises(elevation) THEN "TypeError"
    ELSE IF Lt(elevation, 20)
         THEN IF Raises(rainfall) THEN "TypeError"
              ELSE IF Gt(rainfall, 30) THEN "Medium" ELSE "Low"
         ELSE "Low"

\* mutant: non-strict comparisons
calculate_flood_risk_nonstrict(elevation, rainfall) ==
    IF elevation.k = "num" /\ elevation.n <= 10 * Scale
       /\ rainfall.k = "num" /\ rainfall.n >= 50 * Scale
    THEN "High"
    ELSE IF elevation.k = "num" /\ elevation.n <= 20 * Scale
            /\ rainfall.k = "num" /\ rainfall.n >= 30 * Scale
         THEN "Medium"
         ELSE "Low"

\* mutant: the two rules tested in the other order
calculate_flood_risk_reordered(elevation, rainfall) ==
    IF Lt(elevation, 20) /\ Gt(rainfall, 30) THEN "Medium"
    ELSE IF Lt(elevation, 10) /\ Gt(rainfall, 50) THEN "High"
         ELSE "Low"

\* `and` evaluates its right operand only when the left one is true
calculate_flood_risk(elevation, rainfall) ==
    IF Raises(elevation) THEN "TypeError"
    ELSE IF Lt(elevation, 10)
         THEN IF Raises(rainfall) THEN "TypeError"
              ELSE IF Gt(rainfall, 50) THEN "High"
                   ELSE ElifMedium(elevation, rainfall)
         ELSE ElifMedium(elevation, rainfall)

get_risk_color(risk) ==
    CASE risk = "High"   -> "red"
      [] risk = "Medium" -> "orange"
      [] risk = "Low"    -> "green"
      [] OTHER           -> "gray"

-----------------------------------------------------------------------------
(* Tables.  A DataFrame is its column labels, in order, and its rows; a    *)
(* row carries its index label (0-based, kept by boolean indexing) and one *)
(* cell per column.                                                        *)

Range(seq) == {seq[i] : i \in 1..Len(seq)}

EmptyFrame == [columns |-> <<>>, rows |-> <<>>]

\* DataFrame.empty: any axis of length 0
IsEmpty(df) == Len(df.columns) = 0 \/ Len(df.rows) = 0

Column(df, c) == [i \in 1..Len(df.rows) |-> df.rows[i].cells[c]]

RECURSIVE SelectRows(_, _, _)
\* df[mask]: the rows whose cell in column c has its text in `allowed`
SelectRows(rows, c, allowed) ==
    IF rows = <<>> THEN <<>>
    ELSE LET rest == SelectRows(Tail(rows), c, allowed)
         IN  IF Head(rows).cells[c].s \in allowed
             THEN <<Head(rows)>> \o rest
             ELSE rest

\* round half to even to a multiple of `unit`
RoundInt(n, unit) ==
    LET q == n \div unit
        r == n % unit
    IN  IF 2 * r < unit THEN q * unit
        ELSE IF 2 * r > unit THEN (q + 1) * unit
        ELSE IF q % 2 = 0 THEN q * unit ELSE (q + 1) * unit

\* Only float cells are rounded; NaN and object cells are left as they are
RoundCell(x, decimals) ==
    IF x.k = "num" THEN Num(RoundInt(x.n, Scale \div 10^decimals)) ELSE x

\* DataFrame.round(decimals)
RoundFrame(df, decimals) ==
    [columns |-> df.columns,
     rows |-> [i \in 1..Len(df.rows) |->
                 [idx |-> df.rows[i].idx,
                  cells |-> [c \in Range(df.columns) |->
                               RoundCell(df.rows[i].cells[c], decimals)]]]]

RECURSIVE SumQuot(_, _), SumRem(_, _)
SumQuot(cells, n) ==
    IF cells = <<>> THEN 0 ELSE (Head(cells).n \div n) + SumQuot(Tail(cells), n)
SumRem(cells, n) ==
    IF cells = <<>> THEN 0 ELSE (Head(cells).n % n) + SumRem(Tail(cells), n)

IsNum(x) == x.k = "num"

\* Series.mean(): NaN skipped; a column of str raises TypeError
Mean(col) ==
    LET nums == SelectSeq(col, IsNum)
        n    == Len(nums)
    IN  IF \E i \in 1..Len(col) : Raises(col[i]) THEN Text("TypeError")
        ELSE IF n = 0 THEN NaN
        ELSE Num(SumQuot(nums, n) + (SumRem(nums, n) \div n))

-----------------------------------------------------------------------------
(* generate_sample_data: n_points rows, columns Latitude, Longitude,       *)
(* Elevation, Rainfall, rounded to 6 decimals.  The seeded generator is a  *)
(* fixed sequence; Draw stands for it, with the distributions' ranges.     *)

n_points == 50

base_lat == 40 * Scale + 712800
base_lon == 0 - (74 * Scale + 6000)

\* the i-th draw of stream `stream`, in thousandths of the unit interval
Draw(stream, i) == ((i * 137 + stream * 59) * 31 + 17) % 1000

generate_sample_data ==
    [columns |-> <<"Latitude", "Longitude", "Elevation", "Rainfall">>,
     rows |-> [i \in 1..n_points |->
        [idx |-> i - 1,
         cells |->
           [c \in {"Latitude", "Longitude", "Elevation", "Rainfall"} |->
              CASE c = "Latitude"  -> Num(base_lat + (Draw(1, i) - 500) * 201)
                [] c = "Longitude" -> Num(base_lon + (Draw(2, i) - 500) * 201)
                [] c = "Elevation" -> Num(Draw(3, i) * 50021)
                [] c = "Rainfall"  -> Num(10 * Scale + Draw(4, i) * 90013)]]]]

-----------------------------------------------------------------------------
(* Uploaded files.  A file either cannot be parsed, or is a header and     *)
(* data rows of text fields: a numeral, an empty field, or other text.     *)

NoFile == [present |-> FALSE, parses |-> TRUE, columns |-> <<>>, rows |-> <<>>]

Unparseable ==
    [present |-> TRUE, parses |-> FALSE, columns |-> <<>>, rows |-> <<>>]

\* pd.read_csv: a column all of whose fields are numerals or empty becomes a
\* float column (empty -> NaN); any other column keeps every field as a str
\* (empty -> NaN).  Index labels are 0, 1, 2, ...
read_csv(file) ==
    LET textual(c) == \E i \in 1..Len(file.rows) : file.rows[i][c].k = "str"
        parsed(x, c) ==
            IF x.k = "num" /\ textual(c) THEN [x EXCEPT !.k = "str"] ELSE x
    IN  [columns |-> file.columns,
         rows |-> [i \in 1..Len(file.rows) |->
                     [idx |-> i - 1,
                      cells |-> [c \in Range(file.columns) |->
                                   parsed(file.rows[i][c], c)]]]]

-----------------------------------------------------------------------------
(* The steps of main() on a non-empty table *)

required_cols == <<"Latitude", "Longitude", "Elevation", "Rainfall">>

\* mutant: every required column is listed as soon as one is missing
missing_cols_all(df) ==
    IF \E i \in 1..Len(required_cols) : required_cols[i] \notin Range(df.columns)
    THEN required_cols
    ELSE <<>>

\* [col for col in required_cols if col not in df.columns]
missing_cols(df) ==
    LET absent(c) == c \notin Range(df.columns)
    IN  SelectSeq(required_cols, absent)

\* the value the lambda returns for each row, in row order
RowRisks(df) ==
    [i \in 1..Len(df.rows) |->
        calculate_flood_risk(df.rows[i].cells["Elevation"],
                             df.rows[i].cells["Rainfall"])]

\* df.apply(...) propagates the first exception the lambda raises
ApplyRaises(df) == \E i \in 1..Len(df.rows) : RowRisks(df)[i] = "TypeError"

\* mutant: a Flood_Risk column the table came with is kept
AssignFloodRisk_keep(df) ==
    LET had  == "Flood_Risk" \in Range(df.columns)
        cols == IF had THEN df.columns ELSE Append(df.columns, "Flood_Risk")
    IN  [columns |-> cols,
         rows |-> [i \in 1..Len(df.rows) |->
                     [idx |-> df.rows[i].idx,
                      cells |-> [c \in Range(cols) |->
                                   IF c = "Flood_Risk" /\ ~had
                                   THEN Text(RowRisks(df)[i])
                                   ELSE df.rows[i].cells[c]]]]]

\* df['Flood_Risk'] = ...: a new column goes last, an existing one is
\* overwritten where it stands
AssignFloodRisk(df) ==
    LET cols == IF "Flood_Risk" \in Range(df.columns)
                THEN df.columns
                ELSE Append(df.columns, "Flood_Risk")
    IN  [columns |-> cols,
         rows |-> [i \in 1..Len(df.rows) |->
                     [idx |-> df.rows[i].idx,
                      cells |-> [c \in Range(cols) |->
                                   IF c = "Flood_Risk"
                                   THEN Text(RowRisks(df)[i])
                                   ELSE df.rows[i].cells[c]]]]]

\* df['Flood_Risk'].value_counts(): only the values that occur
risk_counts(df) ==
    LET risks   == Column(df, "Flood_Risk")
        present == {risks[i].s : i \in 1..Len(risks)}
    IN  [r \in present |->
            Cardinality({i \in 1..Len(risks) : risks[i].s = r})]

\* risk_counts.get(risk, 0)
CountOf(counts, risk) == IF risk \in DOMAIN counts THEN counts[risk] ELSE 0

\* mutant: the percentage is truncated, not rounded
Percentage_truncated(count, total) == ((count * 1000) \div total)

\* count / total * 100 rounded to one decimal, in tenths of a percent
Percentage(count, total) ==
    LET a == count * 1000
        q == a \div total
        r == a % total
    IN  IF 2 * r < total THEN q
        ELSE IF 2 * r > total THEN q + 1
        ELSE IF q % 2 = 0 THEN q ELSE q + 1

\* (risk_counts / len(df) * 100).round(1)
risk_percentages(df) ==
    LET counts == risk_counts(df)
    IN  [r \in DOMAIN counts |-> Percentage(counts[r], Len(df.rows))]

\* mutant: the selected levels are dropped instead of kept
FilterByRisk_inverted(df, selection) ==
    [columns |-> df.columns,
     rows |-> SelectRows(df.rows, "Flood_Risk", RiskLevels \ selection)]

\* df[df['Flood_Risk'].isin(risk_filter)]
FilterByRisk(df, selection) ==
    [columns |-> df.columns,
     rows |-> SelectRows(df.rows, "Flood_Risk", selection)]

\* a cell as to_csv writes it: NaN is the empty field
Field(x) == IF x.k = "nan" THEN Text("") ELSE x

NoCsv == [header |-> <<>>, lines |-> <<>>]

\* mutant: the index is written as a first, unnamed column
to_csv_with_index(df) ==
    [header |-> <<"">> \o df.columns,
     lines  |-> [i \in 1..Len(df.rows) |->
                   <<Num(df.rows[i].idx)>> \o
                   [j \in 1..Len(df.columns) |->
                       Field(df.rows[i].cells[df.columns[j]])]]]

\* df.to_csv(index=False): the header, then one line per row, the fields in
\* column order
to_csv(df) ==
    [header |-> df.columns,
     lines  |-> [i \in 1..Len(df.rows) |->
                   [j \in 1..Len(df.columns) |->
                       Field(df.rows[i].cells[df.columns[j]])]]]

\* a value under a format of the f kind: a str raises ValueError
FormatRaises(row) ==
    \E c \in {"Latitude", "Longitude", "Elevation", "Rainfall"} :
        Raises(row.cells[c])

NoMap == [result |-> "None", center |-> <<>>, markers |-> <<>>]

create_flood_map(df) ==
    IF IsEmpty(df) THEN NoMap
    ELSE LET center_lat == Mean(Column(df, "Latitude"))
             center_lon == Mean(Column(df, "Longitude"))
         IN  IF Raises(center_lat) \/ Raises(center_lon)
             THEN [NoMap EXCEPT !.result = "TypeError"]
             ELSE IF \E i \in 1..Len(df.rows) : FormatRaises(df.rows[i])
             THEN [NoMap EXCEPT !.result = "ValueError"]
             ELSE [result |-> "Map",
                   center |-> <<center_lat, center_lon>>,
                   markers |->
                     [i \in 1..Len(df.rows) |->
                        LET row == df.rows[i]
                        IN  [location  |-> <<row.cells["Latitude"],
                                             row.cells["Longitude"]>>,
                             idx       |-> row.idx,
                             point     |-> row.idx + 1,
                             lat       |-> RoundCell(row.cells["Latitude"], 4),
                             lon       |-> RoundCell(row.cells["Longitude"], 4),
                             elevation |-> RoundCell(row.cells["Elevation"], 1),
                             rainfall  |-> RoundCell(row.cells["Rainfall"], 1),
                             risk      |-> row.cells["Flood_Risk"].s,
                             fillColor |->
                               get_risk_color(row.cells["Flood_Risk"].s)]]]

-----------------------------------------------------------------------------
(* main(): the page one run renders.  A run that returns early, or that an *)
(* uncaught exception ends, leaves the later parts of the page unrendered. *)

DefaultFilter == RiskLevels

BlankPage ==
    [sidebar_error   |-> FALSE,       \* "Error reading file: ..."
     sample_download |-> NoCsv,       \* the sidebar's sample data download
     error           |-> <<>>,        \* "Missing required columns: ..."
     info            |-> <<>>,        \* "Required columns: ..."
     exception       |-> "none",      \* the uncaught exception, if any
     instructions    |-> FALSE,       \* the no-data branch
     classified      |-> FALSE,
     df              |-> EmptyFrame,  \* df once Flood_Risk is assigned
     metrics         |-> [shown |-> FALSE, High |-> 0, Medium |-> 0, Low |-> 0],
     filter_shown    |-> FALSE,
     selection       |-> {},          \* what the multiselect returned
     table           |-> [shown |-> FALSE, frame |-> EmptyFrame],
     download        |-> [offered |-> FALSE, csv |-> NoCsv],
     map             |-> [shown |-> FALSE, center |-> <<>>, markers |-> <<>>],
     map_error       |-> FALSE,       \* "Unable to create map"
     distribution    |-> [shown |-> FALSE, lines |-> {}],
     summary         |-> [shown |-> FALSE, total |-> 0,
                          avg_elevation |-> NaN, avg_rainfall |-> NaN,
                          high_percentage |-> 0]]

\* lines 174-234: the left column
LeftColumn(pg, df, selection) ==
    LET counts      == risk_counts(df)
        filtered_df == FilterByRisk(df, selection)
    IN  [pg EXCEPT
           !.metrics = [shown  |-> TRUE,
                        High   |-> CountOf(counts, "High"),
                        Medium |-> CountOf(counts, "Medium"),
                        Low    |-> CountOf(counts, "Low")],
           !.filter_shown = TRUE,
           !.selection = selection,
           !.table = [shown |-> TRUE, frame |-> RoundFrame(filtered_df, 4)],
           !.download = IF ~IsEmpty(filtered_df)
                        THEN [offered |-> TRUE, csv |-> to_csv(filtered_df)]
                        ELSE [offered |-> FALSE, csv |-> NoCsv]]

\* lines 247-264: the analysis under the two columns
Analysis(pg, df) ==
    LET counts == risk_counts(df)
        pct    == risk_percentages(df)
    IN  [pg EXCEPT
           !.distribution =
               [shown |-> TRUE,
                lines |-> {[risk |-> r, count |-> counts[r],
                            percentage |-> pct[r]] : r \in DOMAIN counts}],
           !.summary =
               [shown |-> TRUE, total |-> Len(df.rows),
                avg_elevation |-> RoundCell(Mean(Column(df, "Elevation")), 1),
                avg_rainfall  |-> RoundCell(Mean(Column(df, "Rainfall")), 1),
                high_percentage |->
                    Percentage(CountOf(counts, "High"), Len(df.rows))]]

\* lines 159-264: the branch taken when df is not empty
Render(pg, raw, selection) ==
    IF missing_cols(raw) # <<>>
    THEN [pg EXCEPT !.error = missing_cols(raw), !.info = required_cols]
    ELSE IF ApplyRaises(raw)
    THEN [pg EXCEPT !.exception = "TypeError"]
    ELSE LET df        == AssignFloodRisk(raw)
             left      == LeftColumn([pg EXCEPT !.classified = TRUE, !.df = df],
                                     df, selection)
             flood_map == create_flood_map(df)
         IN  IF flood_map.result \in {"TypeError", "ValueError"}
             THEN [left EXCEPT !.exception = flood_map.result]
             ELSE IF Raises(Mean(Column(df, "Rainfall")))
             THEN [left EXCEPT !.exception = "TypeError"]
             ELSE Analysis(
                    IF flood_map.result = "Map"
                    THEN [left EXCEPT !.map = [shown   |-> TRUE,
                                               center  |-> flood_map.center,
                                               markers |-> flood_map.markers]]
                    ELSE [left EXCEPT !.map_error = TRUE],
                    df)

\* mutant: the columns are validated before the table is tested for rows
RenderFrame_validate_first(pg, raw, selection) ==
    IF missing_cols(raw) # <<>>
    THEN [pg EXCEPT !.error = missing_cols(raw)]
    ELSE IF ~IsEmpty(raw)
    THEN Render(pg, raw, selection)
    ELSE [pg EXCEPT !.instructions = TRUE]

\* lines 158-291, from the table the first part of main() produced
RenderFrame(pg, raw, selection) ==
    IF ~IsEmpty(raw)
    THEN Render(pg, raw, selection)
    ELSE [pg EXCEPT !.instructions = TRUE]

main(option, file, selection) ==
    IF option = "Use Sample Data"
    THEN RenderFrame(
            [BlankPage EXCEPT !.sample_download = to_csv(generate_sample_data)],
            generate_sample_data, selection)
    ELSE IF ~file.present
    THEN RenderFrame(BlankPage, EmptyFrame, selection)
    ELSE IF ~file.parses
    THEN [BlankPage EXCEPT !.sidebar_error = TRUE]
    ELSE RenderFrame(BlankPage, read_csv(file), selection)

-----------------------------------------------------------------------------
(* Inputs: the tables a user uploads *)

\* one data line of a CSV file, with every field a line can have
Line(lat, lon, elevation, rainfall) ==
    [Latitude |-> lat, Longitude |-> lon, Elevation |-> elevation,
     Rainfall |-> rainfall, Flood_Risk |-> Text("Low"), Name |-> Text("A")]

\* six decimals, just under the High threshold
HighLine   == Line(Dec(40, 762671), Dec(-75, 993949), Dec(9, 999960),
                   Dec(50, 100000))
MediumLine == Line(Dec(40, 758900), Dec(-74, 14900), Dec(15, 800000),
                   Dec(45, 700000))
LowLine    == Line(Dec(40, 689200), Dec(-75, 955500), Dec(25, 100000),
                   Dec(25, 900000))

Lines ==
    {HighLine, MediumLine, LowLine,
     \* an empty Elevation field
     Line(Dec(40, 700000), Dec(-74, 0), NaN, Dec(60, 0)),
     \* text where a number is expected
     Line(Dec(40, 700000), Dec(-74, 0), Text("abc"), Dec(40, 0)),
     Line(Dec(40, 700000), Dec(-74, 0), Dec(30, 0), Text("heavy"))}

Layouts ==
    {<<"Latitude", "Longitude", "Elevation", "Rainfall">>,
     <<"Rainfall", "Name", "Elevation", "Longitude", "Latitude">>,
     <<"Flood_Risk", "Latitude", "Longitude", "Elevation", "Rainfall">>,
     <<"Latitude", "Longitude", "Elevation">>,
     <<"Longitude", "Name">>}

CsvFile(columns, lines) ==
    [present |-> TRUE, parses |-> TRUE, columns |-> columns,
     rows |-> [i \in 1..Len(lines) |->
                 [c \in Range(columns) |-> lines[i][c]]]]

\* 3 High, 4 Medium and 3 Low rows
TenRowFile ==
    CsvFile(<<"Latitude", "Longitude", "Elevation", "Rainfall">>,
            [i \in 1..10 |-> IF i <= 3 THEN HighLine
                             ELSE IF i <= 7 THEN MediumLine ELSE LowLine])

Files ==
    {Unparseable, TenRowFile} \cup
    UNION {{CsvFile(columns, lines) : lines \in [1..n -> Lines]} :
              columns \in Layouts, n \in 0..MaxRows}

-----------------------------------------------------------------------------
(* The dashboard: one action per user interaction, each followed by the    *)
(* run of main() it triggers.  A widget that a run does not reach loses    *)
(* its state: the uploader when sample data is chosen, the multiselect     *)
(* when the run ends before line 211.                                      *)

Rerun(option, file, selection) ==
    LET rendered == main(option, file, selection)
    IN  /\ page' = rendered
        /\ risk_filter' = IF rendered.filter_shown THEN selection
                          ELSE DefaultFilter

Init ==
    /\ data_option = "Use Sample Data"
    /\ uploaded_file = NoFile
    /\ risk_filter = DefaultFilter
    /\ page = main("Use Sample Data", NoFile, DefaultFilter)
    /\ elevation_arg = NaN
    /\ rainfall_arg = NaN
    /\ risk_ret = "none"

ChooseSampleData ==
    /\ data_option = "Upload CSV File"
    /\ data_option' = "Use Sample Data"
    /\ uploaded_file' = NoFile
    /\ Rerun("Use Sample Data", NoFile, risk_filter)
    /\ UNCHANGED <<elevation_arg, rainfall_arg, risk_ret>>

ChooseUpload ==
    /\ data_option = "Use Sample Data"
    /\ data_option' = "Upload CSV File"
    /\ uploaded_file' = NoFile
    /\ Rerun("Upload CSV File", NoFile, risk_filter)
    /\ UNCHANGED <<elevation_arg, rainfall_arg, risk_ret>>

UploadFile ==
    /\ data_option = "Upload CSV File"
    /\ ~uploaded_file.present
    /\ \E file \in Files :
          /\ uploaded_file' = file
          /\ Rerun(data_option, file, risk_filter)
    /\ UNCHANGED <<data_option, elevation_arg, rainfall_arg, risk_ret>>

RemoveFile ==
    /\ data_option = "Upload CSV File"
    /\ uploaded_file.present
    /\ uploaded_file' = NoFile
    /\ Rerun(data_option, NoFile, risk_filter)
    /\ UNCHANGED <<data_option, elevation_arg, rainfall_arg, risk_ret>>

SelectRisks ==
    /\ page.filter_shown
    /\ \E selection \in SUBSET RiskLevels :
          /\ selection # risk_filter
          /\ Rerun(data_option, uploaded_file, selection)
    /\ UNCHANGED <<data_option, uploaded_file,
                   elevation_arg, rainfall_arg, risk_ret>>

Next ==
    \/ ChooseSampleData
    \/ ChooseUpload
    \/ UploadFile
    \/ RemoveFile
    \/ SelectRisks

Spec == Init /\ [][Next]_vars

-----------------------------------------------------------------------------
(* calculate_flood_risk on its own, over values around its thresholds *)

Elevations ==
    {Dec(5, 0), Dec(9, 900000), Dec(9, 999999), Dec(10, 0), Dec(10, 1),
     Dec(15, 0), Dec(19, 999999), Dec(20, 0), Dec(30, 0), Dec(-3, 0), NaN}

Rainfalls ==
    {Dec(20, 0), Dec(30, 0), Dec(30, 1), Dec(40, 0), Dec(50, 0),
     Dec(50, 1), Dec(50, 100000), Dec(60, 0), Dec(0, 0), NaN}

InitClassify ==
    /\ data_option = "Use Sample Data"
    /\ uploaded_file = NoFile
    /\ risk_filter = DefaultFilter
    /\ page = BlankPage
    /\ elevation_arg \in Elevations
    /\ rainfall_arg \in Rainfalls
    /\ risk_ret = "none"

Classify ==
    /\ risk_ret = "none"
    /\ risk_ret' = calculate_flood_risk(elevation_arg, rainfall_arg)
    /\ UNCHANGED <<data_option, uploaded_file, risk_filter, page,
                   elevation_arg, rainfall_arg>>

NextClassify == Classify

SpecClassify == InitClassify /\ [][NextClassify]_vars

-----------------------------------------------------------------------------
(* Properties.  The input of a run, as the properties read it: *)

FromUpload == data_option = "Upload CSV File" /\ uploaded_file.present

InputColumns ==
    IF data_option = "Use Sample Data" THEN generate_sample_data.columns
    ELSE uploaded_file.columns

\* the input rows, each a function from its columns to the values as written
InputRows ==
    IF data_option = "Use Sample Data"
    THEN [i \in 1..n_points |-> generate_sample_data.rows[i].cells]
    ELSE uploaded_file.rows

\* the same value, whatever type the column was given
SameValue(x, y) == x.n = y.n /\ x.s = y.s /\ (x.k = "nan") = (y.k = "nan")

Required == {"Latitude", "Longitude", "Elevation", "Rainfall"}

Below(x, bound) == x.k = "num" /\ x.n < bound * Scale
Above(x, bound) == x.k = "num" /\ x.n > bound * Scale

\* C1: for every (float) elevation and rainfall, calculate_flood_risk returns
\* exactly one of High, Medium, Low, by first match: High if e < 10 and
\* r > 50; otherwise Medium if e < 20 and r > 30; otherwise Low.
C1_FirstMatch ==
    risk_ret # "none" =>
        LET rule1 == Below(elevation_arg, 10) /\ Above(rainfall_arg, 50)
            rule2 == Below(elevation_arg, 20) /\ Above(rainfall_arg, 30)
        IN  /\ risk_ret \in RiskLevels
            /\ (risk_ret = "High") <=> rule1
            /\ (risk_ret = "Medium") <=> (~rule1 /\ rule2)
            /\ (risk_ret = "Low") <=> (~rule1 /\ ~rule2)

\* the first rule's elevation test holds, its rainfall test does not, and
\* the second rule decides
C1_Witness ==
    /\ risk_ret = "Medium"
    /\ Below(elevation_arg, 10)
    /\ ~Above(rainfall_arg, 50)

ExamplePoints(boundary_risk) ==
    LET at(e, r) == elevation_arg = e /\ rainfall_arg = r
    IN  risk_ret # "none" =>
            /\ at(Dec(5, 0), Dec(60, 0)) => risk_ret = "High"
            /\ at(Dec(15, 0), Dec(40, 0)) => risk_ret = "Medium"
            /\ at(Dec(30, 0), Dec(20, 0)) => risk_ret = "Low"
            /\ at(Dec(9, 900000), Dec(50, 100000)) => risk_ret = "High"
            /\ at(Dec(10, 0), Dec(50, 0)) => risk_ret = boundary_risk

\* C2 as stated: classify(5, 60) = High, classify(15, 40) = Medium,
\* classify(30, 20) = Low, classify(9.9, 50.1) = High, and at the boundary
\* classify(10, 50) = Low.
C2_Original == ExamplePoints("Low")

\* C2, amended: the same points, but classify(10, 50) = Medium: the strict
\* inequalities rule out High, and 10 < 20 with 50 > 30 is the second rule.
C2_ExamplePoints == ExamplePoints("Medium")

C2_Witness ==
    /\ elevation_arg = Dec(10, 0)
    /\ rainfall_arg = Dec(50, 0)
    /\ risk_ret = "Medium"

\* nothing of the results is on the page
NothingRendered ==
    /\ ~page.classified
    /\ ~page.metrics.shown
    /\ ~page.filter_shown
    /\ ~page.table.shown
    /\ ~page.download.offered
    /\ ~page.map.shown
    /\ ~page.distribution.shown
    /\ ~page.summary.shown

LacksColumns ==
    /\ FromUpload /\ uploaded_file.parses
    /\ Len(uploaded_file.rows) > 0
    /\ Len(uploaded_file.columns) > 0
    /\ Required \ Range(uploaded_file.columns) # {}

\* C3: for every non-empty input table that lacks required columns, the run
\* reports an error naming exactly the missing required columns and halts:
\* no classification, metrics, table, map or download.
C3_MissingColumns ==
    LacksColumns =>
        /\ Range(page.error) = Required \ Range(uploaded_file.columns)
        /\ Len(page.error) = Cardinality(Range(page.error))
        /\ NothingRendered
        /\ page.exception = "none"
        /\ ~page.instructions

C3_Witness ==
    /\ LacksColumns
    /\ Required \ Range(uploaded_file.columns) = {"Rainfall"}
    /\ page.error = <<"Rainfall">>

\* a required measurement column of the upload holds text
NonNumericUpload ==
    /\ FromUpload /\ uploaded_file.parses
    /\ Required \subseteq Range(uploaded_file.columns)
    /\ \E i \in 1..Len(uploaded_file.rows) :
          \E c \in {"Elevation", "Rainfall"} : uploaded_file.rows[i][c].k = "str"

\* C4: no run on an uploaded file ends in an uncaught exception: a file
\* that cannot be parsed, and a file whose Elevation or Rainfall column
\* holds a non-numeric value, each end the run with an error message and
\* with rendering halted before any row is classified.
C4_NoCrash ==
    FromUpload =>
        /\ page.exception = "none"
        /\ ~uploaded_file.parses => page.sidebar_error /\ NothingRendered
        /\ NonNumericUpload =>
              /\ page.sidebar_error \/ page.error # <<>>
              /\ NothingRendered

\* the row of the classified table that carries index label idx
RowAt(idx) == page.df.rows[idx + 1]

\* the index labels of a sequence of rows increase: the rows are in the
\* table's order and none occurs twice
InOrder(rows) ==
    \A i, j \in 1..Len(rows) : i < j => rows[i].idx < rows[j].idx

\* the classified table is the input, row for row, with Flood_Risk computed
ClassifiedFromInput ==
    /\ Len(page.df.rows) = Len(InputRows)
    /\ \A i \in 1..Len(InputRows) :
          /\ page.df.rows[i].idx = i - 1
          /\ \A c \in Required :
                SameValue(page.df.rows[i].cells[c], InputRows[i][c])
          /\ page.df.rows[i].cells["Flood_Risk"].s =
                calculate_flood_risk(page.df.rows[i].cells["Elevation"],
                                     page.df.rows[i].cells["Rainfall"])

\* every marker is a row of the classified table, with its own risk
MappedFromClassified ==
    page.map.shown =>
        \A i \in 1..Len(page.map.markers) :
            LET m == page.map.markers[i]
            IN  /\ m.idx \in 0..(Len(page.df.rows) - 1)
                /\ m.location = <<RowAt(m.idx).cells["Latitude"],
                                  RowAt(m.idx).cells["Longitude"]>>
                /\ m.risk = RowAt(m.idx).cells["Flood_Risk"].s
                /\ \A j \in 1..Len(page.map.markers) :
                      i < j => m.idx < page.map.markers[j].idx

\* every exported line is the displayed row at the same place, its values
\* as they are in the classified table
ExportedFromClassified ==
    page.download.offered =>
        /\ Len(page.download.csv.lines) = Len(page.table.frame.rows)
        /\ \A j \in 1..Len(page.download.csv.lines) :
              LET line   == page.download.csv.lines[j]
                  header == page.download.csv.header
                  row    == RowAt(page.table.frame.rows[j].idx)
              IN  /\ Len(line) = Len(header)
                  /\ \A k \in 1..Len(header) :
                        line[k] = Field(row.cells[header[k]])

\* every displayed row is a row of the classified table, with its own risk;
\* `shown(x)` is what the table shows for the value x
DisplayedFromClassified(shown(_)) ==
    page.table.shown =>
        /\ InOrder(page.table.frame.rows)
        /\ \A j \in 1..Len(page.table.frame.rows) :
              LET row == page.table.frame.rows[j]
              IN  /\ row.idx \in 0..(Len(page.df.rows) - 1)
                  /\ row.cells["Flood_Risk"] = RowAt(row.idx).cells["Flood_Risk"]
                  /\ \A c \in Required :
                        row.cells[c] = shown(RowAt(row.idx).cells[c])

Unchanged(x) == x
ToFourDecimals(x) == IF x.k = "num" THEN Num(RoundInt(x.n, 100)) ELSE x

SelectedLabels ==
    {page.df.rows[i].idx :
        i \in {k \in 1..Len(page.df.rows) :
                  page.df.rows[k].cells["Flood_Risk"].s \in page.selection}}

\* every required value of the classified table is a float or NaN
NumericData ==
    \A i \in 1..Len(page.df.rows) :
        \A c \in Required : page.df.rows[i].cells[c].k # "str"

\* C6: for every classified dataset and every subset S of {High, Medium,
\* Low} selected, the filtered table holds exactly the rows whose Flood_Risk
\* is in S, each once and in the original order; with S empty it has zero
\* rows and the same columns, and the run goes on without an error.
C6_Filter ==
    page.table.shown =>
        LET shown == page.table.frame.rows
        IN  /\ page.selection = risk_filter
            /\ {shown[j].idx : j \in 1..Len(shown)} = SelectedLabels
            /\ InOrder(shown)
            /\ \A j \in 1..Len(shown) :
                  shown[j].cells["Flood_Risk"] =
                      RowAt(shown[j].idx).cells["Flood_Risk"]
            /\ page.table.frame.columns = page.df.columns
            /\ page.selection = {} =>
                  /\ Len(shown) = 0
                  /\ page.error = <<>> /\ ~page.sidebar_error
                  /\ ~page.map_error
                  /\ NumericData =>
                        page.exception = "none" /\ page.summary.shown

\* some rows are kept and some are dropped
C6_Witness ==
    /\ page.table.shown
    /\ page.selection = {"High", "Low"}
    /\ Len(page.table.frame.rows) = 2
    /\ Len(page.df.rows) = 3

\* C7: when the selection yields zero rows, the run shows an empty table
\* and no map, and reports no error; more generally the map has a marker
\* only for observations that are in the filtered view.
C7_MapFollowsFilter ==
    page.table.shown =>
        /\ Len(page.table.frame.rows) = 0 =>
              /\ ~page.map.shown
              /\ page.error = <<>> /\ ~page.map_error
        /\ \A i \in 1..Len(page.map.markers) :
              page.map.markers[i].idx \in SelectedLabels

\* the columns C8 names
FiveColumns == <<"Latitude", "Longitude", "Elevation", "Rainfall", "Flood_Risk">>

\* the download holds the rows of the filtered view, in order, one field
\* per column of `columns` and nothing else
DownloadHolds(columns) ==
    /\ page.download.csv.header = columns
    /\ Len(page.download.csv.lines) = Len(page.table.frame.rows)
    /\ \A j \in 1..Len(page.download.csv.lines) :
          LET line == page.download.csv.lines[j]
              row  == RowAt(page.table.frame.rows[j].idx)
          IN  /\ Len(line) = Len(columns)
              /\ \A k \in 1..Len(columns) :
                    line[k] = Field(row.cells[columns[k]])

\* C8 as stated: the results CSV holds a header and exactly the rows of the
\* filtered view in row order, with no index column, its columns Latitude,
\* Longitude, Elevation, Rainfall, Flood_Risk in that order whatever the
\* input's column order and additional columns.
C8_Original ==
    page.download.offered => DownloadHolds(FiveColumns)

\* C8, amended: the columns of the results CSV are the input's columns, all
\* of them and in the input's order, with Flood_Risk last when the input
\* had none and where it stood when it had one; the CSV is offered only
\* when the filtered view has a row.
C8_Export ==
    /\ page.download.offered =>
          DownloadHolds(IF "Flood_Risk" \in Range(InputColumns)
                        THEN InputColumns
                        ELSE Append(InputColumns, "Flood_Risk"))
    /\ page.table.shown =>
          (page.download.offered <=> Len(page.table.frame.rows) > 0)

\* an upload with its columns in another order and one more column
C8_Witness ==
    /\ page.download.offered
    /\ page.download.csv.header =
          <<"Rainfall", "Name", "Elevation", "Longitude", "Latitude", "Flood_Risk">>
    /\ Len(page.download.csv.lines) = 1
    /\ Len(page.df.rows) = 2

\* the rows of the classified table with the risk r
RowsWith(r) ==
    {i \in 1..Len(page.df.rows) : page.df.rows[i].cells["Flood_Risk"].s = r}

\* p tenths of a percent is count / total * 100 rounded to one decimal
IsPercentage(p, count, total) ==
    LET d == p * total - count * 1000
    IN  2 * d <= total /\ 2 * d >= 0 - total

CountsOverDataset ==
    /\ page.metrics.shown
    /\ page.metrics.High = Cardinality(RowsWith("High"))
    /\ page.metrics.Medium = Cardinality(RowsWith("Medium"))
    /\ page.metrics.Low = Cardinality(RowsWith("Low"))
    /\ page.metrics.High + page.metrics.Medium + page.metrics.Low
          = Len(page.df.rows)

\* the distribution has a line for each risk of `risks`, and only right ones
PercentagesFor(risks) ==
    /\ \A r \in risks : \E l \in page.distribution.lines : l.risk = r
    /\ \A l \in page.distribution.lines :
          /\ l.count = Cardinality(RowsWith(l.risk))
          /\ IsPercentage(l.percentage, l.count, Len(page.df.rows))

TenRowExample ==
    uploaded_file = TenRowFile =>
        page.distribution.lines =
            {[risk |-> "High", count |-> 3, percentage |-> 300],
             [risk |-> "Medium", count |-> 4, percentage |-> 400],
             [risk |-> "Low", count |-> 3, percentage |-> 300]}

\* C9 as stated: for every classified dataset of N > 0 rows the summary
\* reports for each of the three categories its count and its percentage,
\* the counts over the whole dataset and summing to N, each percentage
\* count / N * 100 rounded to one decimal; 3 High, 4 Medium, 3 Low of 10
\* rows give 30.0, 40.0, 30.0.
C9_Original ==
    page.distribution.shown =>
        /\ CountsOverDataset
        /\ PercentagesFor(RiskLevels)
        /\ TenRowExample

\* C9, amended: the three counts are reported as stated; a percentage is
\* reported for each category that has at least one row, and for High also
\* when it has none; a category with no row other than High gets no
\* percentage.
C9_Summary ==
    page.distribution.shown =>
        /\ CountsOverDataset
        /\ PercentagesFor({r \in RiskLevels : RowsWith(r) # {}})
        /\ \A l \in page.distribution.lines : l.count > 0
        /\ page.summary.shown
        /\ IsPercentage(page.summary.high_percentage,
                        Cardinality(RowsWith("High")), Len(page.df.rows))
        /\ TenRowExample

\* a percentage that rounding decides, under a filter that hides rows
C9_Witness ==
    /\ page.distribution.shown
    /\ Len(page.df.rows) = 3
    /\ page.metrics.High = 2
    /\ page.selection = {"Low"}
    /\ [risk |-> "High", count |-> 2, percentage |-> 667]
          \in page.distribution.lines

\* the page of a run with nothing uploaded
NoDataPage == [BlankPage EXCEPT !.instructions = TRUE]

\* C10: a run whose dataset has zero rows (no file uploaded yet, or an
\* upload that parses to a header with no data rows, also one that lacks
\* required columns) validates and classifies nothing and reports no
\* error: it ends in the no-data state, as when nothing was uploaded.
C10_NoData ==
    (data_option = "Upload CSV File" /\ uploaded_file.parses
        /\ Len(uploaded_file.rows) = 0) =>
        /\ page = NoDataPage
        /\ page.instructions
        /\ page.error = <<>> /\ ~page.sidebar_error
        /\ page.exception = "none"
        /\ NothingRendered

\* a header that lacks required columns, and no data rows
C10_Witness ==
    /\ FromUpload /\ uploaded_file.parses
    /\ Len(uploaded_file.rows) = 0
    /\ Required \ Range(uploaded_file.columns) # {}
    /\ page.instructions

====
